---------------------------- MODULE Spec2Model ----------------------------
(***************************************************************************)
(* Shade-optimized pedestrian routing (kavanaraju/Pedestrian-Shade-Routing) *)
(*                                                                         *)
(* Two programs are modelled, one run of either per behaviour:             *)
(*   "app"       notebooks/app.py: calculate_route_from_coords, i.e. two   *)
(*               nx.shortest_path searches over the loaded street graph    *)
(*               (weight 'length', weight 'shade_weight'), the per-route   *)
(*               totals and the comparison metrics;                        *)
(*   "dashboard" dashboard.py: the reactive result cell, the Calculate     *)
(*               handler and the efficiency rating of the render functions.*)
(*                                                                         *)
(* Numbers.  Python floats are modelled by exact rationals in lowest       *)
(* terms (records [n, d], d > 0).  Shade scores of the street graph are    *)
(* tenths (8 is 0.8), the coefficient alpha is tenths (3 is 0.3), a        *)
(* 'shade_weight' is hundredths of a length unit.  In the dashboard shade  *)
(* values are hundredths and detour_pct is tenths of a percent.            *)
(***************************************************************************)
EXTENDS Integers, Sequences, FiniteSets

(***************************************************************************)
(* Bounds of the model.                                                    *)
(***************************************************************************)
\* The number of parallel segments a graph holds beyond the first segment of
\* each street.
MaxExtraParallel == 1

Nodes == {1, 2, 3}

\* Node pairs that may be joined by street segments.  A pedestrian network
\* is symmetric: a segment is traversable in both directions with the same
\* attributes, so graph[u][v] and graph[v][u] list the same segments.
Streets == {<<1, 2>>, <<2, 3>>, <<1, 3>>}

\* Attribute records of a segment: length, shade_score (tenths).
EdgeTypes == { [length |-> 100, shade |-> 0],
               [length |-> 120, shade |-> 8],
               [length |-> 0,   shade |-> 0],
               [length |-> 100, shade |-> 10] }

\* The node nearest to the origin.  Every pair of nodes may be joined and
\* every street takes the same segments, so the graphs are closed under
\* renaming the nodes and one origin stands for all.
Origins == {1}

\* The node nearest to the destination stop: the origin itself or another
\* node.  Renaming the nodes 2 and 3 maps the graphs onto themselves, so node
\* 3 stands for both.
Dests == {1, 3}

\* Shade-weight coefficients (tenths): 0, the documented 0.3, and 1.
Alphas == {0, 3, 10}

VARIABLES
    prog,           \* which program this behaviour runs: "app" or "dashboard"
    \* ---- app: calculate_route_from_coords ----
    graph,          \* G: Streets -> sequence of parallel segments (key k is index k+1)
    alpha,          \* coefficient the 'shade_weight' attribute was built with
    origin_node,    \* ox.nearest_nodes(graph, lon, lat)
    dest_node,      \* ox.nearest_nodes(graph, stop.x, stop.y)
    pc,             \* position in calculate_route_from_coords
    seen,           \* search state: tentative distance of each node seen
    settled,        \* search state: nodes popped from the frontier
    pred,           \* search state: predecessor of each node seen
    shortest_path,  \* node list returned by the 'length' search
    shadiest_path,  \* node list returned by the 'shade_weight' search
    results,        \* value returned by calculate_route_from_coords
    \* ---- dashboard: server ----
    sel,            \* input.origin(), input.destination(), input.scenario()
    result          \* reactive.Value: the stored result

appVars == <<graph, alpha, origin_node, dest_node, pc, seen, settled, pred,
             shortest_path, shadiest_path, results>>
vars == <<prog, graph, alpha, origin_node, dest_node, pc, seen, settled, pred,
          shortest_path, shadiest_path, results, sel, result>>

(***************************************************************************)
(* Arithmetic helpers.                                                     *)
(***************************************************************************)
Abs(x) == IF x < 0 THEN -x ELSE x

GCD(a, b) ==
    LET gcd[x \in Nat, y \in Nat] == IF y = 0 THEN x ELSE gcd[y, x % y]
    IN  gcd[a, b]

\* The rational n/d (d # 0) in lowest terms with a positive denominator.
Rat(n, d) ==
    LET rat[x \in Int, y \in Int] ==
            LET g == GCD(Abs(x), Abs(y))
                s == IF y < 0 THEN -1 ELSE 1
            IN  [n |-> s * (x \div g), d |-> s * (y \div g)]
    IN  rat[n, d]

RatInt(k) == [n |-> k, d |-> 1]
RatSub(a, b) == Rat(a.n * b.d - b.n * a.d, a.d * b.d)
RatMul(a, b) == Rat(a.n * b.n, a.d * b.d)
RatDiv(a, b) == Rat(a.n * b.d, a.d * b.n)
RatLe(a, b) == a.n * b.d <= b.n * a.d
RatLt(a, b) == a.n * b.d < b.n * a.d

SetMin(S) == CHOOSE x \in S : \A y \in S : x <= y

SeqsUpTo(S, k) == UNION { [1..m -> S] : m \in 0..k }


(***************************************************************************)
(* The street graph (app.py line 74: ox.load_graphml, a multigraph).       *)
(***************************************************************************)
RECURSIVE SumOver(_, _)
SumOver(f, S) ==
    IF S = {} THEN 0
    ELSE LET x == CHOOSE y \in S : TRUE IN f[x] + SumOver(f, S \ {x})

\* Segments of g beyond the first one of each street.
ExtraParallel(g) ==
    SumOver([p \in Streets |-> IF Len(g[p]) > 1 THEN Len(g[p]) - 1 ELSE 0], Streets)

Graphs == { g \in [Streets -> SeqsUpTo(EdgeTypes, 1 + MaxExtraParallel)] :
              ExtraParallel(g) <= MaxExtraParallel }

EmptyGraph == [p \in Streets |-> <<>>]

\* graph[u][v]: the parallel segments between u and v, in key order;
\* graph[u][v][0] is Adj(g, u, v)[1].
Adj(g, u, v) ==
    IF <<u, v>> \in Streets THEN g[<<u, v>>]
    ELSE IF <<v, u>> \in Streets THEN g[<<v, u>>]
    ELSE <<>>

\* graph[v]: the neighbours of v.
Neighbors(g, v) == { u \in Nodes : Adj(g, u, v) # <<>> }

(***************************************************************************)
(* Weight Calculator.  The 'shade_weight' attribute is precomputed by the  *)
(* repository's data preparation, which is not among the source files; it  *)
(* is modelled from the specification (section 4.1) and the dashboard's    *)
(* documentation: cost = length * (1 - alpha * shade), here in hundredths. *)
(***************************************************************************)
ShadeScoreOrFull(e) == IF "shade" \in DOMAIN e THEN e.shade ELSE 10

\* edge_data.get('shade_score', 0) (app.py lines 208 and 227): the score of
\* a segment, 0 for a segment that carries none.
ShadeScore(e) == IF "shade" \in DOMAIN e THEN e.shade ELSE 0

ShadeWeightNoDiscount(length, shade, a) == length * 100 + length * a * shade

ShadeWeightSurcharge(length, shade, a) == length * (100 + a * (10 - shade))

ShadeWeight(length, shade, a) == length * (100 - a * shade)

\* edge_data[weight] for weight = 'length' (app.py line 199) or
\* weight = 'shade_weight' (app.py line 218).
EdgeAttrLengthOnly(e, weight, a) == IF weight = "length" THEN e.length ELSE e.length * 100

EdgeAttr(e, weight, a) ==
    IF weight = "length" THEN e.length
    ELSE ShadeWeight(e.length, ShadeScore(e), a)

\* The weight nx.shortest_path gives the hop u -> v of a multigraph: the
\* minimum of the attribute over the parallel segments.
MultiWeight(g, a, weight, u, v) ==
    SetMin({ EdgeAttr(Adj(g, u, v)[k], weight, a) : k \in 1..Len(Adj(g, u, v)) })

(***************************************************************************)
(* Path Finder: nx.shortest_path(graph, origin_node, dest_node, weight=w), *)
(* a label-setting (Dijkstra) search.  seen is the dict of tentative       *)
(* distances, settled the nodes already popped, pred the predecessor       *)
(* links.  Which of several equally near frontier nodes is popped first    *)
(* depends on the library's heap and on the adjacency order of the data:   *)
(* it is a nondeterministic choice here.                                   *)
(***************************************************************************)
Frontier(sn, st) == DOMAIN sn \ st

MinFrontier(sn, st) ==
    { v \in Frontier(sn, st) : \A w \in Frontier(sn, st) : sn[v] <= sn[w] }

ImprovedWhenLonger(g, a, weight, sn, st, v) ==
    { u \in Neighbors(g, v) \ (st \cup {v}) :
        \/ u \notin DOMAIN sn
        \/ sn[v] + MultiWeight(g, a, weight, v, u) > sn[u] }

\* Neighbours of the popped node v whose tentative distance improves
\* (strictly: on a tie the first predecessor recorded wins).
Improved(g, a, weight, sn, st, v) ==
    { u \in Neighbors(g, v) \ (st \cup {v}) :
        \/ u \notin DOMAIN sn
        \/ sn[v] + MultiWeight(g, a, weight, v, u) < sn[u] }

\* The check the search makes while relaxing the hops of the popped node v:
\* a hop that would shorten the distance of a node already settled raises
\* ValueError("Contradictory paths found: negative weights?").
Contradicts(g, a, weight, sn, st, v) ==
    \E u \in Neighbors(g, v) \cap st :
        sn[v] + MultiWeight(g, a, weight, v, u) < sn[u]

RelaxSeen(g, a, weight, sn, st, v) ==
    LET imp == Improved(g, a, weight, sn, st, v)
    IN  [u \in DOMAIN sn \cup imp |->
            IF u \in imp THEN sn[v] + MultiWeight(g, a, weight, v, u) ELSE sn[u]]

RelaxPred(g, a, weight, sn, st, pr, v) ==
    LET imp == Improved(g, a, weight, sn, st, v)
    IN  [u \in DOMAIN pr \cup imp |-> IF u \in imp THEN v ELSE pr[u]]

PathToLastHop(pr, s, v) == IF v = s \/ v \notin DOMAIN pr THEN <<v>> ELSE <<pr[v], v>>

\* Path reconstruction: walk the predecessor links from v back to s.
RECURSIVE PathTo(_, _, _)
PathTo(pr, s, v) ==
    IF v = s \/ v \notin DOMAIN pr THEN <<v>>
    ELSE Append(PathTo(pr, s, pr[v]), v)

(***************************************************************************)
(* Route Comparator: the totals of one route (app.py lines 200-210 and     *)
(* 219-229) and the comparison metrics (lines 236-246).                    *)
(***************************************************************************)
\* edge_data = graph[u][v][0] for the hop path[i] -> path[i+1].
HopEdge(g, path, i) == Adj(g, path[i], path[i + 1])[1]

RECURSIVE RouteLengthBackwards(_, _, _)
RouteLengthBackwards(g, path, i) ==
    IF i >= Len(path) THEN 0
    ELSE RouteLengthBackwards(g, path, i + 1) - HopEdge(g, path, i).length

\* The loop's running sum of edge_length over hops i..len(path)-1.
RECURSIVE RouteLength(_, _, _)
RouteLength(g, path, i) ==
    IF i >= Len(path) THEN 0
    ELSE HopEdge(g, path, i).length + RouteLength(g, path, i + 1)

\* The loop's running sum of shade_score * edge_length (tenths).
RECURSIVE RouteShadeWeighted(_, _, _)
RouteShadeWeighted(g, path, i) ==
    IF i >= Len(path) THEN 0
    ELSE ShadeScore(HopEdge(g, path, i)) * HopEdge(g, path, i).length
         + RouteShadeWeighted(g, path, i + 1)

\* shade_weighted / length if length > 0 else 0; shade_weighted is in tenths.
AvgShade(shade_weighted, length) ==
    IF length > 0 THEN Rat(shade_weighted, 10 * length) ELSE RatInt(0)

\* x * 0.3048
FtToM(x) == Rat(x * 381, 1250)

LengthIncreaseFraction(increase, shortest_length) ==
    IF shortest_length > 0 THEN Rat(increase, shortest_length) ELSE RatInt(0)

\* length_increase_pct (line 239).
LengthIncreasePct(increase, shortest_length) ==
    IF shortest_length > 0 THEN Rat(increase * 100, shortest_length) ELSE RatInt(0)

\* shade_improvement_pct (line 241).
ShadeImprovementPct(improvement, shortest_avg) ==
    IF shortest_avg.n > 0
    THEN RatMul(RatDiv(improvement, shortest_avg), RatInt(100))
    ELSE RatInt(0)

ShadePerFootDetour(improvement, increase_m) ==
    IF increase_m.n > 0
    THEN [inf |-> FALSE, val |-> RatDiv(improvement, RatDiv(increase_m, Rat(381, 1250)))]
    ELSE [inf |-> TRUE, val |-> RatInt(0)]

\* shade_per_meter_detour (lines 243-246); inf is float('inf').
ShadePerMeterDetour(improvement, increase_m) ==
    IF increase_m.n > 0
    THEN [inf |-> FALSE, val |-> RatDiv(improvement, increase_m)]
    ELSE [inf |-> TRUE, val |-> RatInt(0)]

None == [ok |-> FALSE]

\* The results dict built by calculate_route_from_coords (lines 190-248).
RouteResults(g, sp, hp) ==
    LET shortest_length == RouteLength(g, sp, 1)
        shortest_avg == AvgShade(RouteShadeWeighted(g, sp, 1), shortest_length)
        shadiest_length == RouteLength(g, hp, 1)
        shadiest_avg == AvgShade(RouteShadeWeighted(g, hp, 1), shadiest_length)
        increase == shadiest_length - shortest_length
        improvement == RatSub(shadiest_avg, shortest_avg)
    IN  [ ok |-> TRUE,
          shortest_path |-> sp,
          shortest_length_ft |-> shortest_length,
          shortest_length_m |-> FtToM(shortest_length),
          shortest_shade_score |-> shortest_avg,
          shadiest_path |-> hp,
          shadiest_length_ft |-> shadiest_length,
          shadiest_length_m |-> FtToM(shadiest_length),
          shadiest_shade_score |-> shadiest_avg,
          length_increase_ft |-> increase,
          length_increase_m |-> FtToM(increase),
          length_increase_pct |-> LengthIncreasePct(increase, shortest_length),
          shade_improvement |-> improvement,
          shade_improvement_pct |-> ShadeImprovementPct(improvement, shortest_avg),
          shade_per_meter_detour |-> ShadePerMeterDetour(improvement, FtToM(increase)) ]

\* The efficiency analysis shown for a results dict (lines 476-488):
\* "Perfect!" when shade_per_meter_detour is float('inf'), else a verdict by
\* the thresholds 0.01, 0.005 and 0.001.
Verdict(r) ==
    IF r.shade_per_meter_detour.inf THEN "Perfect"
    ELSE LET efficiency == r.shade_per_meter_detour.val
         IN  IF RatLt(Rat(1, 100), efficiency) THEN "Excellent"
             ELSE IF RatLt(Rat(1, 200), efficiency) THEN "Good"
             ELSE IF RatLt(Rat(1, 1000), efficiency) THEN "Fair"
             ELSE "Marginal"

(***************************************************************************)
(* app: the steps of calculate_route_from_coords.                          *)
(***************************************************************************)
NoSearch == /\ seen' = << >>
            /\ settled' = {}
            /\ pred' = << >>

StartSearchUnseeded == /\ seen' = << >>
                       /\ settled' = {}
                       /\ pred' = << >>

StartSearch == /\ seen' = [v \in {origin_node} |-> 0]
               /\ settled' = {}
               /\ pred' = << >>

\* Lines 183-185: the destination stop is not in septa_df: return None.
StopNotFound ==
    /\ prog = "app" /\ pc = "start"
    /\ pc' = "done"
    /\ results' = None
    /\ UNCHANGED <<prog, graph, alpha, origin_node, dest_node, seen, settled,
                   pred, shortest_path, shadiest_path, sel, result>>

\* Lines 180-199: the stop is found; the 'length' search begins.
FindStop ==
    /\ prog = "app" /\ pc = "start"
    /\ pc' = "shortest"
    /\ StartSearch
    /\ UNCHANGED <<prog, graph, alpha, origin_node, dest_node,
                   shortest_path, shadiest_path, results, sel, result>>

SearchWeight == IF pc = "shortest" THEN "length" ELSE "shade_weight"

SettleWithoutSettling ==
    /\ prog = "app" /\ pc \in {"shortest", "shadiest"}
    /\ \E v \in MinFrontier(seen, settled) :
         /\ v # dest_node
         /\ ~Contradicts(graph, alpha, SearchWeight, seen, settled, v)
         /\ settled' = settled
         /\ seen' = RelaxSeen(graph, alpha, SearchWeight, seen, settled, v)
         /\ pred' = RelaxPred(graph, alpha, SearchWeight, seen, settled, pred, v)
    /\ UNCHANGED <<prog, graph, alpha, origin_node, dest_node, pc,
                   shortest_path, shadiest_path, results, sel, result>>

\* One iteration of the search: pop a nearest frontier node other than the
\* target, settle it and relax the hops to its neighbours.
Settle ==
    /\ prog = "app" /\ pc \in {"shortest", "shadiest"}
    /\ \E v \in MinFrontier(seen, settled) :
         /\ v # dest_node
         /\ ~Contradicts(graph, alpha, SearchWeight, seen, settled, v)
         /\ settled' = settled \cup {v}
         /\ seen' = RelaxSeen(graph, alpha, SearchWeight, seen, settled, v)
         /\ pred' = RelaxPred(graph, alpha, SearchWeight, seen, settled, pred, v)
    /\ UNCHANGED <<prog, graph, alpha, origin_node, dest_node, pc,
                   shortest_path, shadiest_path, results, sel, result>>

ShortestFoundKeepingState ==
    /\ prog = "app" /\ pc = "shortest"
    /\ dest_node \in MinFrontier(seen, settled)
    /\ shortest_path' = PathTo(pred, origin_node, dest_node)
    /\ pc' = "shadiest"
    /\ UNCHANGED <<prog, graph, alpha, origin_node, dest_node, seen, settled,
                   pred, shadiest_path, results, sel, result>>

\* Lines 199-218: the target is popped in the 'length' search; the path is
\* returned, the shortest route's totals are taken (with the final results
\* below) and the 'shade_weight' search begins.
ShortestFound ==
    /\ prog = "app" /\ pc = "shortest"
    /\ dest_node \in MinFrontier(seen, settled)
    /\ shortest_path' = PathTo(pred, origin_node, dest_node)
    /\ pc' = "shadiest"
    /\ StartSearch
    /\ UNCHANGED <<prog, graph, alpha, origin_node, dest_node,
                   shadiest_path, results, sel, result>>

ShadiestFoundConsuming ==
    /\ prog = "app" /\ pc = "shadiest"
    /\ dest_node \in MinFrontier(seen, settled)
    /\ shadiest_path' = PathTo(pred, origin_node, dest_node)
    /\ results' = RouteResults(graph, shortest_path, shadiest_path')
    /\ graph' = EmptyGraph
    /\ pc' = "done"
    /\ NoSearch
    /\ UNCHANGED <<prog, alpha, origin_node, dest_node,
                   shortest_path, sel, result>>

\* Lines 218-248: the target is popped in the 'shade_weight' search; both
\* routes' totals and the comparison metrics are stored and returned.
ShadiestFound ==
    /\ prog = "app" /\ pc = "shadiest"
    /\ dest_node \in MinFrontier(seen, settled)
    /\ LET path == PathTo(pred, origin_node, dest_node)
       IN  /\ shadiest_path' = path
           /\ results' = RouteResults(graph, shortest_path, path)
    /\ pc' = "done"
    /\ NoSearch
    /\ UNCHANGED <<prog, graph, alpha, origin_node, dest_node,
                   shortest_path, sel, result>>

NoPathPartial ==
    /\ prog = "app" /\ pc \in {"shortest", "shadiest"}
    /\ Frontier(seen, settled) = {}
    /\ results' = [ok |-> TRUE, shortest_path |-> shortest_path,
                   shadiest_path |-> shadiest_path]
    /\ pc' = "done"
    /\ UNCHANGED <<prog, graph, alpha, origin_node, dest_node, seen, settled,
                   pred, shortest_path, shadiest_path, sel, result>>

NoPathEmptyRoute ==
    /\ prog = "app" /\ pc \in {"shortest", "shadiest"}
    /\ Frontier(seen, settled) = {}
    /\ results' = RouteResults(graph, << >>, << >>)
    /\ pc' = "done"
    /\ UNCHANGED <<prog, graph, alpha, origin_node, dest_node, seen, settled,
                   pred, shortest_path, shadiest_path, sel, result>>

\* Lines 250-251: the frontier is empty and the target was never reached:
\* nx.NetworkXNoPath is caught and None is returned.
NoPath ==
    /\ prog = "app" /\ pc \in {"shortest", "shadiest"}
    /\ Frontier(seen, settled) = {}
    /\ results' = None
    /\ pc' = "done"
    /\ UNCHANGED <<prog, graph, alpha, origin_node, dest_node, seen, settled,
                   pred, shortest_path, shadiest_path, sel, result>>

\* Lines 252-254: any other exception of the try block, here the search's
\* ValueError on contradictory paths, is caught and None is returned.
Contradictory ==
    /\ prog = "app" /\ pc \in {"shortest", "shadiest"}
    /\ \E v \in MinFrontier(seen, settled) :
         /\ v # dest_node
         /\ Contradicts(graph, alpha, SearchWeight, seen, settled, v)
    /\ results' = None
    /\ pc' = "done"
    /\ UNCHANGED <<prog, graph, alpha, origin_node, dest_node, seen, settled,
                   pred, shortest_path, shadiest_path, sel, result>>

(***************************************************************************)
(* dashboard: data, the Calculate handler and the render functions.        *)
(* Lengths are metres, shade values hundredths, detour_pct tenths of a     *)
(* percent.                                                                *)
(***************************************************************************)
OriginChoices == {"Penn Campus", "Drexel Campus", "Clark Park"}
DestinationChoices == {"40th St", "34th St", "46th St"}
SCENARIOS == {"summer_morning", "summer_midday", "summer_evening",
              "winter_morning", "winter_midday", "winter_evening"}

ExampleKeys == { <<"Penn Campus", "40th St", "summer_midday">>,
                 <<"Drexel Campus", "34th St", "summer_evening">>,
                 <<"Clark Park", "46th St", "summer_morning">> }

EXAMPLE_ROUTES ==
    [ k \in ExampleKeys |->
        IF k[1] = "Penn Campus"
        THEN [ shortest_length |-> 315, shortest_shade |-> 41,
               shadiest_length |-> 352, shadiest_shade |-> 57,
               detour_pct |-> 117, shade_improvement |-> 16 ]
        ELSE IF k[1] = "Drexel Campus"
        THEN [ shortest_length |-> 524, shortest_shade |-> 21,
               shadiest_length |-> 591, shadiest_shade |-> 65,
               detour_pct |-> 128, shade_improvement |-> 44 ]
        ELSE [ shortest_length |-> 1239, shortest_shade |-> 59,
               shadiest_length |-> 1424, shadiest_shade |-> 67,
               detour_pct |-> 149, shade_improvement |-> 8 ] ]

\* Values the random draws of the estimate can return:
\* np.random.randint(300, 1200), np.random.uniform(0.2, 0.6),
\* np.random.uniform(8, 15), np.random.uniform(0.15, 0.40).
RandLengths == {300, 1199}
RandShades == {20, 59}
RandDetours == {80, 120, 149}
RandImprovements == {15, 24, 39}

\* est_result (lines 178-187).
EstimateUnfinished(sl, ss, dp, si) ==
    [ shortest_length |-> sl, shortest_shade |-> ss,
      shadiest_length |-> 0,
      shadiest_shade |-> 0,
      detour_pct |-> dp, shade_improvement |-> si ]

EstimateWithoutDetour(sl, ss, dp, si) ==
    [ shortest_length |-> sl, shortest_shade |-> ss,
      shadiest_length |-> sl,
      shadiest_shade |-> ss + si,
      detour_pct |-> 0, shade_improvement |-> si ]

Estimate(sl, ss, dp, si) ==
    [ shortest_length |-> sl, shortest_shade |-> ss,
      shadiest_length |-> (sl * (1000 + dp)) \div 1000,
      shadiest_shade |-> ss + si,
      detour_pct |-> dp, shade_improvement |-> si ]

\* efficiency in results_message (line 202) and analysis_text (line 319).
Efficiency(r) ==
    IF r.detour_pct > 0 THEN Rat(10 * r.shade_improvement, r.detour_pct)
    ELSE RatInt(0)

\* The unguarded quotient shade_improvement / (detour_pct / 100) of
\* metrics_table (line 304) and tradeoff_plot (line 388).
UnguardedEfficiency(r) == Rat(10 * r.shade_improvement, r.detour_pct)

RatingOfStrict(efficiency) ==
    IF RatLt(RatInt(3), efficiency) THEN "EXCELLENT"
    ELSE IF RatLt(RatInt(2), efficiency) THEN "GOOD"
    ELSE IF RatLt(RatInt(1), efficiency) THEN "MODERATE"
    ELSE "LOW"

\* The rating chain of results_message (lines 204-215) and analysis_text
\* (lines 321-332).
RatingOf(efficiency) ==
    IF RatLe(RatInt(3), efficiency) THEN "EXCELLENT"
    ELSE IF RatLe(RatInt(2), efficiency) THEN "GOOD"
    ELSE IF RatLe(RatInt(1), efficiency) THEN "MODERATE"
    ELSE "LOW"

DefaultSel == [ origin |-> "Penn Campus", destination |-> "40th St",
                scenario |-> "summer_morning" ]

SelectOrigin ==
    /\ prog = "dashboard"
    /\ \E o \in OriginChoices : sel' = [sel EXCEPT !.origin = o]
    /\ UNCHANGED <<prog, result>> /\ UNCHANGED appVars

SelectDestination ==
    /\ prog = "dashboard"
    /\ \E d \in DestinationChoices : sel' = [sel EXCEPT !.destination = d]
    /\ UNCHANGED <<prog, result>> /\ UNCHANGED appVars

SelectScenario ==
    /\ prog = "dashboard"
    /\ \E c \in SCENARIOS : sel' = [sel EXCEPT !.scenario = c]
    /\ UNCHANGED <<prog, result>> /\ UNCHANGED appVars

\* The effect on input.calculate (lines 166-190).
Calculate ==
    /\ prog = "dashboard"
    /\ LET key == <<sel.origin, sel.destination, sel.scenario>>
       IN  IF key \in DOMAIN EXAMPLE_ROUTES
           THEN result' = EXAMPLE_ROUTES[key]
           ELSE \E sl \in RandLengths, ss \in RandShades,
                   dp \in RandDetours, si \in RandImprovements :
                    result' = Estimate(sl, ss, dp, si)
    /\ UNCHANGED <<prog, sel>> /\ UNCHANGED appVars

\* What results_message (lines 194-234) and analysis_text (lines 312-339)
\* render: nothing of a route while no result is stored, else the stored
\* result next to input.origin(), input.destination() and input.scenario()
\* as they are when the output is rendered.
RouteSummary ==
    IF result = None THEN [shown |-> FALSE]
    ELSE [ shown |-> TRUE,
           origin |-> sel.origin,
           destination |-> sel.destination,
           scenario |-> sel.scenario,
           result |-> result ]

(***************************************************************************)
(* Specification.                                                          *)
(***************************************************************************)
Init ==
    /\ prog \in {"app", "dashboard"}
    /\ sel = DefaultSel
    /\ result = None
    /\ seen = << >>
    /\ settled = {}
    /\ pred = << >>
    /\ shortest_path = << >>
    /\ shadiest_path = << >>
    /\ results = None
    /\ IF prog = "app"
       THEN /\ graph \in Graphs
            /\ alpha \in Alphas
            /\ origin_node \in Origins
            /\ dest_node \in Dests
            /\ pc = "start"
       ELSE /\ graph = EmptyGraph
            /\ alpha = 0
            /\ origin_node = 1
            /\ dest_node = 1
            /\ pc = "off"

Next ==
    \/ StopNotFound
    \/ FindStop
    \/ Settle
    \/ ShortestFound
    \/ ShadiestFound
    \/ NoPath
    \/ SelectOrigin
    \/ SelectDestination
    \/ SelectScenario
    \/ Calculate

Spec == Init /\ [][Next]_vars

(***************************************************************************)
(* The app under fair scheduling.  calculate_route_from_coords is          *)
(* sequential code: once called it takes its next step whenever it has     *)
(* one (each search iteration, each return), so its steps are weakly fair. *)
(***************************************************************************)
\* With alpha = 0 the 'shade_weight' search repeats the 'length' search; the
\* fair runs take the coefficients that make the two searches differ.
InitFair == Init /\ prog = "app" /\ alpha # 0

AppStep ==
    \/ StopNotFound
    \/ FindStop
    \/ Settle
    \/ ShortestFound
    \/ ShadiestFound
    \/ NoPath

SpecFair == InitFair /\ [][AppStep]_vars /\ WF_vars(AppStep)

(***************************************************************************)
(* The app on malformed data.  calculate_route_from_coords reads whatever  *)
(* the graph file holds: here a segment of negative length, or a           *)
(* 'shade_weight' attribute built with a coefficient above 1.              *)
(***************************************************************************)
MalformedEdgeTypes == { [length |-> -100, shade |-> 0] }

\* A coefficient of 1.2 (tenths).
MalformedAlphas == {12}

InvalidParameters(g, a) ==
    \/ a \notin 0..10
    \/ \E p \in Streets : \E k \in 1..Len(g[p]) : g[p][k].length < 0

\* Graphs without parallel segments that may hold malformed segments.
MalformedGraphs == [Streets -> SeqsUpTo(EdgeTypes \cup MalformedEdgeTypes, 1)]

InitMalformed ==
    /\ prog = "app"
    /\ sel = DefaultSel
    /\ result = None
    /\ seen = << >>
    /\ settled = {}
    /\ pred = << >>
    /\ shortest_path = << >>
    /\ shadiest_path = << >>
    /\ results = None
    /\ graph \in MalformedGraphs
    /\ alpha \in Alphas \cup MalformedAlphas
    /\ InvalidParameters(graph, alpha)
    /\ origin_node \in Origins
    /\ dest_node \in Nodes
    /\ pc = "start"

NextMalformed ==
    \/ StopNotFound
    \/ FindStop
    \/ Settle
    \/ ShortestFound
    \/ ShadiestFound
    \/ NoPath
    \/ Contradictory

SpecMalformed == InitMalformed /\ [][NextMalformed]_vars

(***************************************************************************)
(* The app on a graph where some segments carry no 'shade_score'.          *)
(***************************************************************************)
\* A segment whose attribute dict has a length and no shade score.
UnscoredEdgeTypes == { [length |-> 100] }

Unscored(g) == \E p \in Streets : \E k \in 1..Len(g[p]) : "shade" \notin DOMAIN g[p][k]

\* Graphs without parallel segments that may hold unscored segments.
UnscoredGraphs == [Streets -> SeqsUpTo(EdgeTypes \cup UnscoredEdgeTypes, 1)]

InitUnscored ==
    /\ prog = "app"
    /\ sel = DefaultSel
    /\ result = None
    /\ seen = << >>
    /\ settled = {}
    /\ pred = << >>
    /\ shortest_path = << >>
    /\ shadiest_path = << >>
    /\ results = None
    /\ graph \in UnscoredGraphs
    /\ Unscored(graph)
    /\ alpha \in Alphas
    /\ origin_node \in Origins
    /\ dest_node \in Nodes
    /\ pc = "start"

NextUnscored ==
    \/ StopNotFound
    \/ FindStop
    \/ Settle
    \/ ShortestFound
    \/ ShadiestFound
    \/ NoPath

SpecUnscored == InitUnscored /\ [][NextUnscored]_vars

(***************************************************************************)
(* Definitions used to state the properties.                               *)
(***************************************************************************)
\* The 'length' search has returned its path.
ShortestReturned == prog = "app" /\ pc \in {"shadiest", "done"} /\ shortest_path # << >>

\* calculate_route_from_coords has returned a results dict.
Returned == prog = "app" /\ pc = "done" /\ results.ok

\* A search ended with NetworkXNoPath.
SearchExhausted == prog = "app" /\ pc = "done" /\ ~results.ok /\ origin_node \in settled

\* Node sequences of up to four nodes.
NodeSeqs == UNION { [1..m -> Nodes] : m \in 1..(Cardinality(Nodes) + 1) }

\* path is a connected walk from s to t in g.
IsWalk(g, path, s, t) ==
    /\ Len(path) >= 1
    /\ path[1] = s
    /\ path[Len(path)] = t
    /\ \A i \in 1..(Len(path) - 1) : Adj(g, path[i], path[i + 1]) # << >>

WalksBetween(g, s, t) == { w \in NodeSeqs : IsWalk(g, w, s, t) }

\* Total cost of a walk: each hop costs its cheapest parallel segment.
RECURSIVE WalkCost(_, _, _, _, _)
WalkCost(g, a, weight, path, i) ==
    IF i >= Len(path) THEN 0
    ELSE SetMin({ EdgeAttr(Adj(g, path[i], path[i + 1])[k], weight, a) :
                    k \in 1..Len(Adj(g, path[i], path[i + 1])) })
         + WalkCost(g, a, weight, path, i + 1)

IsCheapest(path, weight) ==
    /\ IsWalk(graph, path, origin_node, dest_node)
    /\ LET cost == WalkCost(graph, alpha, weight, path, 1)
       IN  \A w \in WalksBetween(graph, origin_node, dest_node) :
              cost <= WalkCost(graph, alpha, weight, w, 1)

\* C1: whenever the target is reachable, each search returns a path of
\* minimum total weight among all walks from source to target, under
\* 'length' for the shortest route and under 'shade_weight' for the shadiest
\* route; a search gives up only when no walk exists.
C1_MinimumCost ==
    /\ ShortestReturned => IsCheapest(shortest_path, "length")
    /\ Returned => IsCheapest(shadiest_path, "shade_weight")
    /\ SearchExhausted => WalksBetween(graph, origin_node, dest_node) = {}

\* A two-hop shadiest route that beats the direct hop under 'shade_weight',
\* while the shortest route is the direct hop.
C1_Witness ==
    /\ Returned
    /\ Len(shadiest_path) = 3
    /\ Len(shortest_path) = 2
    /\ Adj(graph, origin_node, dest_node) # << >>
    /\ WalkCost(graph, alpha, "shade_weight", shadiest_path, 1)
         < WalkCost(graph, alpha, "shade_weight", shortest_path, 1)

\* C2: a returned path is a connected walk: it starts at the source, ends at
\* the target, every two consecutive nodes are joined by a segment, and it
\* has no hop only when source = target.
C2_ConnectedWalk ==
    /\ ShortestReturned =>
         /\ IsWalk(graph, shortest_path, origin_node, dest_node)
         /\ (Len(shortest_path) = 1 <=> origin_node = dest_node)
    /\ Returned =>
         /\ IsWalk(graph, shadiest_path, origin_node, dest_node)
         /\ (Len(shadiest_path) = 1 <=> origin_node = dest_node)

\* Both searches returned two-hop paths.
C2_Witness ==
    /\ Returned
    /\ Len(shortest_path) = 3
    /\ Len(shadiest_path) = 3

\* All segments of the graph.
AllSegments(g) == UNION { { g[p][k] : k \in 1..Len(g[p]) } : p \in Streets }

\* The graph is one segment e, joining the origin and the destination.
SingleSegment(e) ==
    /\ origin_node # dest_node
    /\ Adj(graph, origin_node, dest_node) = <<e>>
    /\ AllSegments(graph) = {e}

\* C3: the 'shade_weight' of every segment is length * (1 - alpha * shade)
\* (in hundredths: 100 * length - length * alpha * shade); with alpha = 0.3 a
\* fully shaded segment costs 0.7 * length and an unshaded one its length.
\* On a graph that is a single fully shaded segment from source to target,
\* with alpha = 0.3, the cost at which the shade-weighted search reaches the
\* target is 0.7 * length.
C3_CostFormula ==
    prog = "app" =>
      /\ \A e \in AllSegments(graph) :
           LET w == EdgeAttr(e, "shade_weight", alpha)
           IN  /\ w + e.length * alpha * e.shade = 100 * e.length
               /\ (alpha = 3 /\ e.shade = 10) => w = 70 * e.length
               /\ e.shade = 0 => w = 100 * e.length
      /\ \A e \in EdgeTypes :
           (/\ SingleSegment(e) /\ e.shade = 10 /\ alpha = 3
            /\ pc = "shadiest" /\ dest_node \in DOMAIN seen)
           => seen[dest_node] = 70 * e.length

\* The shade-weighted search has reached the target over a single fully
\* shaded segment of positive length, with alpha = 0.3.
C3_Witness ==
    /\ prog = "app" /\ pc = "shadiest" /\ alpha = 3
    /\ \E e \in EdgeTypes :
         /\ SingleSegment(e) /\ e.shade = 10 /\ e.length > 0
         /\ dest_node \in DOMAIN seen
         /\ seen[dest_node] = 70 * e.length

\* C4: for every segment (length >= 0, shade in [0,1]) and alpha in [0,1] the
\* 'shade_weight' is >= 0 and between (1 - alpha) * length and length; every
\* weight handed to a search, and every tentative distance, is >= 0.
C4_CostNonNegative ==
    prog = "app" =>
      /\ \A p \in Streets : \A k \in 1..Len(graph[p]) :
           LET e == graph[p][k]
               w == EdgeAttr(e, "shade_weight", alpha)
           IN  /\ w >= 0
               /\ (100 - 10 * alpha) * e.length <= w
               /\ w <= 100 * e.length
      /\ \A p \in Streets :
           graph[p] # << >> =>
             /\ MultiWeight(graph, alpha, "length", p[1], p[2]) >= 0
             /\ MultiWeight(graph, alpha, "shade_weight", p[2], p[1]) >= 0
      /\ \A v \in DOMAIN seen : seen[v] >= 0

\* The shade-weighted search has relaxed a hop whose weight is at the lower
\* end (1 - alpha) * length, with a shade below 1, and the graph also holds a
\* segment at the upper end.
C4_Witness ==
    /\ prog = "app" /\ pc = "shadiest" /\ alpha = 3
    /\ \E u \in settled, v \in DOMAIN seen :
         /\ Adj(graph, u, v) # << >>
         /\ MultiWeight(graph, alpha, "shade_weight", u, v) = 76 * 120
    /\ \E e \in AllSegments(graph) : e.length > 0 /\ e.shade = 0

\* The segments of the hop u -> v that attain the hop's weight: the ones a
\* search under that weight selects.
SelectedSegments(g, a, weight, u, v) ==
    { e \in { Adj(g, u, v)[k] : k \in 1..Len(Adj(g, u, v)) } :
        EdgeAttr(e, weight, a) = MultiWeight(g, a, weight, u, v) }

\* The pairs <<sum of length, sum of shade * length>> over the hops i.. of a
\* path, for every way of taking a selected segment at each hop.
RECURSIVE SelectedTotals(_, _, _, _, _)
SelectedTotals(g, a, weight, path, i) ==
    IF i >= Len(path) THEN { <<0, 0>> }
    ELSE { <<e.length + t[1], e.shade * e.length + t[2]>> :
             e \in SelectedSegments(g, a, weight, path[i], path[i + 1]),
             t \in SelectedTotals(g, a, weight, path, i + 1) }

\* The reported totals of a route are those of segments the search selected.
TotalsOfSelected(path, weight, total_length, avg_shade) ==
    \E t \in SelectedTotals(graph, alpha, weight, path, 1) :
        /\ total_length = t[1]
        /\ avg_shade = IF t[1] > 0 THEN Rat(t[2], 10 * t[1]) ELSE RatInt(0)

\* Two nodes joined by a segment of length 100, shade 0.0 (key 0) and a
\* parallel segment of length 120, shade 0.8 (key 1).
TwoParallelGraph ==
    [ p \in Streets |->
        IF p = <<1, 3>>
        THEN << [length |-> 100, shade |-> 0], [length |-> 120, shade |-> 8] >>
        ELSE << >> ]

\* C5: parallel segments are never collapsed: the totals of a route are taken
\* from the segment the search selected at each hop.  On the two-node graph
\* with parallel segments (100, shade 0.0) and (120, shade 0.8) and
\* alpha = 0.3 the shadiest route is 120 long, detour_pct = 20,
\* shade_improvement = 0.8, efficiency = 4.0 and the rating is EXCELLENT.
C5_ParallelEdgesKept ==
    Returned =>
      /\ TotalsOfSelected(shadiest_path, "shade_weight",
                          results.shadiest_length_ft, results.shadiest_shade_score)
      /\ (/\ graph = TwoParallelGraph /\ alpha = 3
          /\ origin_node = 1 /\ dest_node = 3)
         => /\ results.shortest_length_ft = 100
            /\ results.shadiest_length_ft = 120
            /\ results.length_increase_pct = RatInt(20)
            /\ results.shade_improvement = Rat(8, 10)
            /\ RatDiv(results.shade_improvement,
                      RatDiv(results.length_increase_pct, RatInt(100))) = RatInt(4)
            /\ RatingOf(RatDiv(results.shade_improvement,
                      RatDiv(results.length_increase_pct, RatInt(100)))) = "EXCELLENT"

\* C6: for each of the two routes, total_length is the sum of the lengths of
\* the path's segments and avg_shade is sum(length * shade) / sum(length)
\* over them, 0 when total_length is 0.
C6_RouteTotals ==
    Returned =>
      /\ TotalsOfSelected(shortest_path, "length",
                          results.shortest_length_ft, results.shortest_shade_score)
      /\ TotalsOfSelected(shadiest_path, "shade_weight",
                          results.shadiest_length_ft, results.shadiest_shade_score)

\* C7: detour_pct (length_increase_pct) is
\* (shadiest length - shortest length) / shortest length * 100 when the
\* shortest length is > 0, and 0 when it is 0.
C7_DetourPct ==
    Returned =>
      LET short == results.shortest_length_ft
          shady == results.shadiest_length_ft
          pct == results.length_increase_pct
      IN  /\ pct.d > 0
          /\ short > 0 => pct.n * short = pct.d * (shady - short) * 100
          /\ short = 0 => pct.n = 0

\* A comparison whose shortest route has positive length and whose shadiest
\* route is longer.
C7_Witness ==
    /\ Returned
    /\ results.shortest_length_ft > 0
    /\ results.shadiest_length_ft > results.shortest_length_ft
    /\ results.length_increase_pct = RatInt(20)

\* The dashboard holds a stored result.
Stored == prog = "dashboard" /\ result # None

\* shade_improvement / (detour_pct / 100) of the app's results.
ImprovementPerDetourFraction(r) ==
    RatDiv(r.shade_improvement, RatDiv(r.length_increase_pct, RatInt(100)))

\* The dashboard's efficiency is shade_improvement / (detour_pct / 100)
\* (shade_improvement in hundredths, detour_pct in tenths of a percent).
DashboardEfficiencyIsRatio ==
    (Stored /\ result.detour_pct > 0) =>
       /\ Efficiency(result).d > 0
       /\ Efficiency(result).n * result.detour_pct
            = Efficiency(result).d * 10 * result.shade_improvement

C9_InfiniteWithoutDetour ==
    /\ (Returned /\ results.length_increase_pct.n = 0) =>
          results.shade_per_meter_detour.inf
    /\ (Stored /\ result.detour_pct = 0) => Efficiency(result) # RatInt(0)

C11_PerfectRating ==
    /\ Returned =>
         /\ Verdict(results) = "Perfect"
              <=> (/\ results.length_increase_pct.n = 0
                   /\ results.shade_improvement.n >= 0)
         /\ origin_node = dest_node =>
              /\ results.shortest_length_ft = 0
              /\ results.shadiest_length_ft = 0
              /\ results.shortest_shade_score = RatInt(0)
              /\ results.shadiest_shade_score = RatInt(0)
              /\ results.length_increase_pct = RatInt(0)
              /\ Verdict(results) = "Perfect"
    /\ Stored =>
         RatingOf(Efficiency(result)) = "PERFECT"
           <=> (result.detour_pct = 0 /\ result.shade_improvement >= 0)

\* calculate_route_from_coords returned at line 185: the destination stop
\* was not found and no search ran.
StopMissing == prog = "app" /\ pc = "done" /\ seen = << >> /\ shortest_path = << >>

\* C12: a query with source = target succeeds: each search reaches the target
\* at total cost 0 and returns the zero-edge path, both route lengths are 0,
\* and the query is never reported as a failure.
C12_SameNodeSucceeds ==
    (prog = "app" /\ origin_node = dest_node) =>
      /\ pc \in {"shortest", "shadiest"} =>
           /\ seen = [v \in {origin_node} |-> 0]
           /\ dest_node \in MinFrontier(seen, settled)
      /\ ShortestReturned => shortest_path = <<origin_node>>
      /\ ~SearchExhausted
      /\ (pc = "done" /\ ~StopMissing) =>
           /\ results.ok
           /\ results.shortest_path = <<origin_node>>
           /\ results.shadiest_path = <<origin_node>>
           /\ results.shortest_length_ft = 0
           /\ results.shadiest_length_ft = 0

\* A query with source = target has returned, on a graph where the node has
\* neighbours.
C12_Witness ==
    /\ Returned
    /\ origin_node = dest_node
    /\ Neighbors(graph, origin_node) # {}
    /\ results.shortest_path = <<origin_node>>

\* The connected component of g that holds the nodes S.
RECURSIVE Component(_, _)
Component(g, S) ==
    LET T == S \cup UNION { Neighbors(g, v) : v \in S }
    IN  IF T = S THEN S ELSE Component(g, T)

\* C13: when the target is not reachable from the source (it lies in another
\* connected component) the query fails through NetworkXNoPath: it returns
\* None, no path is ever returned by a search, and no successful result (with
\* an empty path or zeroed metrics) is produced.
C13_UnreachableFails ==
    (prog = "app" /\ dest_node \notin Component(graph, {origin_node})) =>
      /\ shortest_path = << >>
      /\ shadiest_path = << >>
      /\ pc = "done" =>
           /\ ~results.ok
           /\ results = None
           /\ ~StopMissing => SearchExhausted

\* The query has failed on a graph of two components: the source has
\* neighbours, the target is a different node not joined to them.
C13_Witness ==
    /\ SearchExhausted
    /\ origin_node # dest_node
    /\ Neighbors(graph, origin_node) # {}
    /\ dest_node \notin Component(graph, {origin_node})
    /\ WalksBetween(graph, origin_node, dest_node) = {}
    /\ results = None

\* C14: when the destination is not found (the stop name is absent from
\* septa_df) the query returns a failure that differs from None, the value
\* returned for NetworkXNoPath, and no search result is produced.
C14_InvalidNodeDistinct ==
    StopMissing =>
      /\ ~results.ok
      /\ shortest_path = << >> /\ shadiest_path = << >>
      /\ results # None

\* C15: if alpha is outside [0,1] or a segment has negative length, the query
\* fails before any search begins: no search state is ever allocated, no
\* route is returned by a search and no results dict is produced.
C15_InvalidParameterRejected ==
    (prog = "app" /\ InvalidParameters(graph, alpha)) =>
      /\ pc \in {"start", "done"}
      /\ seen = << >>
      /\ shortest_path = << >> /\ shadiest_path = << >>
      /\ ~results.ok

\* The failure a finished query ran into, "none" if it returned results.
FailureCause ==
    IF StopMissing THEN "InvalidNode"
    ELSE IF SearchExhausted THEN "NoPathFound"
    ELSE "none"

\* Result values that name the failure they report.
ExplicitFailures ==
    { [ok |-> FALSE, failure |-> f] :
        f \in {"InvalidParameter", "InvalidNode", "NoPathFound", "DegenerateInput"} }

\* C16: every failure of a query is returned as a result value that names
\* the failure, and a failure of either search is never ignored: no results
\* dict is returned when a search failed.
C16_FailuresExplicit ==
    (prog = "app" /\ pc = "done") =>
      /\ SearchExhausted => ~results.ok
      /\ results.ok => (shortest_path # << >> /\ shadiest_path # << >>)
      /\ ~results.ok =>
           /\ results \in ExplicitFailures
           /\ results.failure = FailureCause

\* The results the Calculate handler can store for a selection.
CalculateOutputs(s) ==
    LET key == <<s.origin, s.destination, s.scenario>>
    IN  IF key \in DOMAIN EXAMPLE_ROUTES
        THEN { EXAMPLE_ROUTES[key] }
        ELSE { Estimate(sl, ss, dp, si) :
                 sl \in RandLengths, ss \in RandShades,
                 dp \in RandDetours, si \in RandImprovements }

\* C17: two runs of a query with identical inputs yield identical results:
\* when the stored result is a result of the current selection, a step that
\* keeps the selection (Calculate pressed again) keeps the result.
C17_SameInputsSameResults ==
    [][ (prog = "dashboard" /\ sel' = sel /\ result \in CalculateOutputs(sel))
          => result' = result ]_vars

\* The 'shade_weight' search is about to return: the target is a nearest
\* frontier node, at the cost seen[dest_node].
ShadiestReached ==
    prog = "app" /\ pc = "shadiest" /\ dest_node \in MinFrontier(seen, settled)

\* The minimum shade-adjusted cost of the walks under coefficient a.
MinWalkCost(walks, g, a) ==
    SetMin({ WalkCost(g, a, "shade_weight", w, 1) : w \in walks })

\* C18: with graph, source and target fixed, a larger alpha never gives a
\* larger minimum shade-adjusted cost: the cost at which the 'shade_weight'
\* search reaches the target is >= the minimum cost under every larger
\* coefficient and <= the minimum cost under every smaller one.
C18_AlphaMonotone ==
    ShadiestReached =>
      LET walks == WalksBetween(graph, origin_node, dest_node)
          cost == [a \in Alphas |-> MinWalkCost(walks, graph, a)]
      IN  \A a \in Alphas :
            /\ a >= alpha => cost[a] <= seen[dest_node]
            /\ a <= alpha => cost[a] >= seen[dest_node]

\* The search built with alpha = 0.3 reaches the target at a cost strictly
\* between the minimum costs under alpha = 1 and alpha = 0.
C18_Witness ==
    /\ ShadiestReached
    /\ alpha = 3
    /\ MinWalkCost(WalksBetween(graph, origin_node, dest_node), graph, 10)
         < seen[dest_node]
    /\ seen[dest_node]
         < MinWalkCost(WalksBetween(graph, origin_node, dest_node), graph, 0)

\* The pairs <<sum of length, sum of shade * length>> over the hops i.. of a
\* path, for every choice of a segment at each hop.
RECURSIVE AnyTotals(_, _, _)
AnyTotals(g, path, i) ==
    IF i >= Len(path) THEN { <<0, 0>> }
    ELSE { <<Adj(g, path[i], path[i + 1])[k].length + t[1],
             Adj(g, path[i], path[i + 1])[k].shade
               * Adj(g, path[i], path[i + 1])[k].length + t[2]>> :
             k \in 1..Len(Adj(g, path[i], path[i + 1])),
             t \in AnyTotals(g, path, i + 1) }

\* Some walk other than the shortest route offers a strictly higher average
\* shade than the shortest route's.
HasShadierAlternate ==
    \E w \in WalksBetween(graph, origin_node, dest_node) :
        /\ w # shortest_path
        /\ \E t \in AnyTotals(graph, w, 1) :
              /\ t[1] > 0
              /\ RatLt(results.shortest_shade_score, Rat(t[2], 10 * t[1]))

\* C19: on a graph with an alternate path of strictly higher shade, for every
\* alpha in [0,1], the average shade of the shade-weighted route is never
\* lower than that of the shortest route: shade_improvement >= 0.
C19_ShadeNeverLower ==
    (Returned /\ HasShadierAlternate) => results.shade_improvement.n >= 0

\* C20: a routing query never mutates the graph: no step of
\* calculate_route_from_coords, whether it ends with results or with a
\* failure, changes the nodes, the segments or any segment attribute (length,
\* shade score, and the coefficient the 'shade_weight' was built with).
C20_GraphNotMutated ==
    [][graph' = graph /\ alpha' = alpha]_vars

\* A query over a graph with parallel segments has returned a two-hop
\* shadiest route, after both searches and the totals loops read the graph.
C20_Witness ==
    /\ Returned
    /\ Len(shadiest_path) = 3
    /\ ExtraParallel(graph) > 0

\* The state of the running search is its own: every tentative distance is
\* the cost, under the weight of this search, of the path the predecessor
\* links give; nothing of another search is in it.
SearchStateOwn ==
    pc \in {"shortest", "shadiest"} =>
      /\ settled \subseteq DOMAIN seen
      /\ DOMAIN pred \subseteq DOMAIN seen
      /\ \A v \in DOMAIN seen :
           seen[v] = WalkCost(graph, alpha, SearchWeight,
                              PathTo(pred, origin_node, v), 1)

RECURSIVE ScoredShadeWeighted(_, _, _)
ScoredShadeWeighted(g, path, i) ==
    IF i >= Len(path) THEN 0
    ELSE LET e == Adj(g, path[i], path[i + 1])[1]
         IN  (IF "shade" \in DOMAIN e THEN e.shade * e.length ELSE 0)
             + ScoredShadeWeighted(g, path, i + 1)

\* The shade-adjusted cost of the hops i.. of a path on a graph without
\* parallel segments, a segment without a score costing as one of shade 0.
RECURSIVE ScoredCost(_, _, _, _)
ScoredCost(g, a, path, i) ==
    IF i >= Len(path) THEN 0
    ELSE LET e == Adj(g, path[i], path[i + 1])[1]
         IN  (IF "shade" \in DOMAIN e THEN e.length * (100 - a * e.shade)
              ELSE e.length * 100)
             + ScoredCost(g, a, path, i + 1)

\* The hops of a path that run over a segment without a shade score.
UnscoredHops(g, path) ==
    { i \in 1..(Len(path) - 1) :
        "shade" \notin DOMAIN Adj(g, path[i], path[i + 1])[1] }

\* C22: a segment that carries no shade score contributes shade 0 to the
\* route's avg_shade and to its shade-adjusted cost, and a missing score never
\* makes the query fail: a query whose target is reachable returns results.
C22_MissingScoreIsZero ==
    (prog = "app" /\ Unscored(graph)) =>
      /\ Returned =>
           /\ results.shortest_shade_score =
                AvgShade(ScoredShadeWeighted(graph, results.shortest_path, 1),
                         results.shortest_length_ft)
           /\ results.shadiest_shade_score =
                AvgShade(ScoredShadeWeighted(graph, results.shadiest_path, 1),
                         results.shadiest_length_ft)
      /\ pc = "shadiest" =>
           \A v \in DOMAIN seen :
               seen[v] = ScoredCost(graph, alpha, PathTo(pred, origin_node, v), 1)
      /\ (pc = "done" /\ ~StopMissing
            /\ dest_node \in Component(graph, {origin_node})) => results.ok

\* A query has returned a shadiest route of two hops, one over a segment
\* without a score and one over a fully shaded segment of the same length:
\* the average shade is one half.
C22_Witness ==
    /\ Returned
    /\ Len(results.shadiest_path) = 3
    /\ Cardinality(UnscoredHops(graph, results.shadiest_path)) = 1
    /\ results.shadiest_length_ft = 200
    /\ results.shadiest_shade_score = Rat(1, 2)

LengthsNonNegative(g) ==
    \A p \in Streets : \A k \in 1..Len(g[p]) : g[p][k].length >= 0

\* C24: when every segment length is non-negative, both routes of a returned
\* comparison have a total length >= 0 (in feet and in metres), and no query
\* whose target is reachable fails over a total length: a negative total is
\* unreachable.
C24_TotalLengthNonNegative ==
    (prog = "app" /\ LengthsNonNegative(graph)) =>
      /\ Returned =>
           /\ results.shortest_length_ft >= 0
           /\ results.shadiest_length_ft >= 0
           /\ results.shortest_length_m.n >= 0
           /\ results.shadiest_length_m.n >= 0
      /\ (pc = "done" /\ ~StopMissing
            /\ dest_node \in Component(graph, {origin_node})) => Returned

\* A comparison has returned with a shortest route of positive length and a
\* longer shadiest route.
C24_Witness ==
    /\ Returned
    /\ LengthsNonNegative(graph)
    /\ results.shortest_length_ft > 0
    /\ results.shadiest_length_ft > results.shortest_length_ft

\* C25: for every graph, parallel segments included, and every reachable
\* pair the shadiest route is never physically shorter than the shortest
\* route: length_increase and detour_pct of a returned comparison are >= 0.
C25_DetourNonNegative ==
    Returned =>
      /\ results.length_increase_ft >= 0
      /\ results.length_increase_m.n >= 0
      /\ results.length_increase_pct.n >= 0

\* C26: in the dashboard every stored result, example or estimate, has
\* detour_pct > 0, so the unguarded quotients of metrics_table and
\* tradeoff_plot never divide by zero and equal the guarded efficiency.
C26_DetourPositive ==
    Stored =>
      /\ result.detour_pct > 0
      /\ UnguardedEfficiency(result) = Efficiency(result)

\* An estimate with the smallest detour the generator draws is stored.
C26_Witness ==
    /\ Stored
    /\ <<sel.origin, sel.destination, sel.scenario>> \notin DOMAIN EXAMPLE_ROUTES
    /\ result.detour_pct = 80
    /\ UnguardedEfficiency(result) = Rat(15, 8)

\* C27: in the dashboard the origin, destination and scenario shown in the
\* results summary are the ones the displayed result was computed for: the
\* stored result changes only on a Calculate click, to a result of the
\* selection of that moment, and while a result stays displayed the selection
\* displayed with it stays the one of its click.
C27_SummaryMatchesResult ==
    [][ prog = "dashboard" =>
          /\ result' # result =>
               (sel' = sel /\ result' \in CalculateOutputs(sel))
          /\ (RouteSummary.shown /\ RouteSummary'.shown
                /\ RouteSummary'.result = RouteSummary.result) =>
               /\ RouteSummary'.origin = RouteSummary.origin
               /\ RouteSummary'.destination = RouteSummary.destination
               /\ RouteSummary'.scenario = RouteSummary.scenario ]_vars

\* The keys of a complete results dict.
ResultKeys ==
    { "ok", "shortest_path", "shortest_length_ft", "shortest_length_m",
      "shortest_shade_score", "shadiest_path", "shadiest_length_ft",
      "shadiest_length_m", "shadiest_shade_score", "length_increase_ft",
      "length_increase_m", "length_increase_pct", "shade_improvement",
      "shade_improvement_pct", "shade_per_meter_detour" }

\* r holds both paths, from s to t, and every metric.
Complete(r, s, t) ==
    /\ DOMAIN r = ResultKeys
    /\ r.ok
    /\ r.shortest_path # << >> /\ r.shadiest_path # << >>
    /\ r.shortest_path[1] = s /\ r.shortest_path[Len(r.shortest_path)] = t
    /\ r.shadiest_path[1] = s /\ r.shadiest_path[Len(r.shadiest_path)] = t
    /\ \A k \in { "shortest_length_m", "shortest_shade_score",
                  "shadiest_length_m", "shadiest_shade_score",
                  "length_increase_m", "length_increase_pct",
                  "shade_improvement", "shade_improvement_pct" } :
           r[k].d > 0
    /\ r.shade_per_meter_detour.val.d > 0

\* C28: calculate_route_from_coords returns either None or a complete result
\* holding both paths and all metrics: while it runs the caller has nothing,
\* and what it returns is never a partially filled result.
C28_NoneOrComplete ==
    prog = "app" =>
      /\ pc # "done" => results = None
      /\ pc = "done" =>
           \/ results = None
           \/ Complete(results, origin_node, dest_node)

\* A query has failed after its search settled two nodes: nothing of the
\* dict under construction is returned.
C28_Witness ==
    /\ SearchExhausted
    /\ Cardinality(settled) = 2
    /\ results = None

\* The positive-length segments of a path: at each hop the segments the
\* search under that weight selects.
PositiveSegments(path, weight) ==
    { e \in UNION { SelectedSegments(graph, alpha, weight, path[i], path[i + 1]) :
                      i \in 1..(Len(path) - 1) } :
        e.length > 0 }

\* avg lies in [0,1] and between the least and the greatest shade score of
\* the positive-length segments of the path (scores are in tenths).
InShadeRange(path, weight, avg) ==
    /\ RatLe(RatInt(0), avg) /\ RatLe(avg, RatInt(1))
    /\ PositiveSegments(path, weight) # {} =>
         /\ \E e \in PositiveSegments(path, weight) : RatLe(Rat(e.shade, 10), avg)
         /\ \E e \in PositiveSegments(path, weight) : RatLe(avg, Rat(e.shade, 10))

\* C29: for every route whose segments have shade scores in [0,1] and
\* non-negative lengths, the computed avg_shade lies in [0,1] and between the
\* minimum and the maximum shade score of the path's positive-length segments.
C29_AvgShadeInRange ==
    Returned =>
      /\ InShadeRange(results.shortest_path, "length", results.shortest_shade_score)
      /\ InShadeRange(results.shadiest_path, "shade_weight", results.shadiest_shade_score)

\* The stored result is an estimate: it is no entry of EXAMPLE_ROUTES.
IsEstimate == Stored /\ \A k \in DOMAIN EXAMPLE_ROUTES : result # EXAMPLE_ROUTES[k]

\* C30: in the dashboard every stored result satisfies
\* shortest_length <= shadiest_length and
\* 0 <= shortest_shade <= shadiest_shade <= 1 (shades are in hundredths);
\* for an estimate shadiest_length = floor(shortest_length * (1 + detour_pct /
\* 100)) (detour_pct is in tenths of a percent) and
\* shadiest_shade = shortest_shade + shade_improvement.
C30_StoredResultConsistent ==
    Stored =>
      /\ result.shortest_length <= result.shadiest_length
      /\ 0 <= result.shortest_shade
      /\ result.shortest_shade <= result.shadiest_shade
      /\ result.shadiest_shade <= 100
      /\ IsEstimate =>
           /\ result.shadiest_length * 1000
                <= result.shortest_length * (1000 + result.detour_pct)
           /\ result.shortest_length * (1000 + result.detour_pct)
                < (result.shadiest_length + 1) * 1000
           /\ result.shadiest_shade = result.shortest_shade + result.shade_improvement

\* An estimate is stored whose product 1199 * 1.149 = 1377.651 is cut to 1377
\* and whose shade scores are the largest the generator draws.
C30_Witness ==
    /\ IsEstimate
    /\ result.shortest_length = 1199
    /\ result.detour_pct = 149
    /\ result.shadiest_length = 1377
    /\ result.shadiest_shade = 98

=============================================================================
